---------------------------- MODULE Spec2Model ----------------------------
(***************************************************************************)
(* A concurrent chained hash table with three locking strategies:          *)
(*   "A"  src/parallel_spin.c     one spinlock per bucket                  *)
(*   "B"  src/unnamed/part_000    one read-write lock per bucket           *)
(*   "C"  src/unnamed/part_001    bucket read-write lock + entry mutex     *)
(* The driver (main) runs an insert phase, joins, runs a lookup phase,     *)
(* joins, and tears the table down.                                        *)
(***************************************************************************)
EXTENDS Integers, Sequences, FiniteSets, TLC

\* ------------------------------------------------------------------ bounds
\* The thread count given on the command line is drawn from 1..MaxThreads.
MaxThreads == 2
\* Length of the keys array (the source sets 100000; bounded here).
NUM_KEYS == 3
\* Length of the longest sequential insert sequence of SpecEq.
MaxSeq == 4
\* Calls each worker of SpecApi makes.
MaxCalls == 2
\* SpecSlot passes insert and retrieve every int key from -MaxKey to MaxKey.
MaxKey == 20

\* ------------------------------------------------------- program constants
NUM_BUCKETS == 5
NULL == 0

\* Values random() may put into keys[]: two keys of bucket 0 and one of bucket 1.
KeyDomain == {0, 1, NUM_BUCKETS}

Tids == 0 .. (MaxThreads - 1)
\* The main thread takes bucket locks during teardown.
MainTid == MaxThreads
NoThread == MaxThreads + 1
Buckets == 0 .. (NUM_BUCKETS - 1)
\* One node per key slot plus one lookup copy per thread.
MaxAddr == NUM_KEYS + MaxThreads
Addr == 1 .. MaxAddr
Strategies == {"A", "B", "C"}

VARIABLES
  strategy,      \* which of the three programs runs
  num_threads,   \* argv[1]
  keys,          \* int keys[NUM_KEYS]
  table,         \* bucket_entry *table[NUM_BUCKETS]
  heap,          \* the malloc arena: Addr -> bucket_entry and its allocation state
  bucket_locks,  \* per bucket: exclusive holder, shared holders, destroyed
  pc,            \* per worker: position in put_phase/insert/get_phase/retrieve
  kidx,          \* per worker: the loop variable `key` of put_phase/get_phase
  arg_key,       \* per worker: the parameter `key` of insert/retrieve
  arg_val,       \* per worker: the parameter `val` of insert
  calls,         \* per worker (SpecApi): calls made so far
  current,       \* per worker: the chain cursor (`current` in insert, `b` in retrieve)
  e,             \* per worker: the node insert allocated
  result,        \* per worker: the copy retrieve allocated (NULL: not found)
  lost,          \* per worker: get_phase's lost counter
  mpc,           \* main: position
  mi,            \* main: loop variable i
  mcur,          \* main: teardown cursor (`current`)
  mnext,         \* main: teardown's saved link (`next`)
  total_lost,    \* main: sum of the joined lost counts
  exited,        \* exit(1) was called by panic
  last_ret,      \* history: per key, the value of the insert that returned last
  superseded,    \* history: inserts that returned before a later insert of the same key began
  ever_linked,   \* history: every address ever linked into a chain
  ins_returned,  \* history: keys of which some insert has returned
  after_insert,  \* history: per worker, its lookup began after an insert of its key returned
  existed_at_call, \* history: per worker, its insert was called with its key already linked
  td_freed,      \* history: per address, how often teardown freed it
  td_destroyed,  \* history: per address, how often teardown destroyed its mutex
  td_order_ok,   \* history: teardown destroyed each mutex before freeing its node
  eqA, eqB, eqC, \* SpecEq: one table per strategy, driven by one sequential caller
  eq_n,          \* SpecEq: number of inserts applied so far
  slot_key,      \* SpecSlot: the key of the last call
  slot_ins,      \* SpecSlot: <<i>> for the index insert computed for slot_key, else <<>>
  slot_ret       \* SpecSlot: <<i>> for the index retrieve computed for slot_key, else <<>>

cfgVars    == <<strategy, num_threads, keys>>
memVars    == <<table, heap>>
argVars    == <<arg_key, arg_val, calls>>
workerVars == <<pc, kidx, current, e, result, lost, argVars>>
mainVars   == <<mpc, mi, mcur, mnext, total_lost>>
visVars    == <<ins_returned, after_insert, existed_at_call>>
histVars   == <<last_ret, superseded, ever_linked, visVars>>
tdVars     == <<td_freed, td_destroyed, td_order_ok>>
slotVars   == <<slot_key, slot_ins, slot_ret>>
eqVars     == <<eqA, eqB, eqC, eq_n, slotVars>>
vars == <<cfgVars, memVars, bucket_locks, workerVars, mainVars, exited, histVars, tdVars,
          eqVars>>

\* ------------------------------------------------------------ pure helpers
\* C's % truncates toward zero: the remainder takes the sign of the dividend.
CRem(a, b) == IF a >= 0 THEN a % b ELSE -((-a) % b)

\* int i = key % NUM_BUCKETS;
Slot(k) == CRem(k, NUM_BUCKETS)

\* malloc returns a block that is not in use; its contents are whatever was there.
FreeAddrs(h) == {a \in Addr : h[a].st # "alloc"}
Malloc(h) == CHOOSE a \in FreeAddrs(h) : \A b \in FreeAddrs(h) : a <= b

\* Mutant: the update path leaves the stored value alone.
WriteValSkipped(h, a, v) == h

\* Mutant: the update stores the value into the key field.
WriteValIntoKey(h, a, v) == [h EXCEPT ![a].key = v]

\* current->val = val;
WriteVal(h, a, v) == [h EXCEPT ![a].val = v]

\* Mutant: the new entry's link is cleared instead of pointing at the old head.
InitEntryDropsChain(h, a, k, v, head, s) ==
  [h EXCEPT ![a].key = k, ![a].val = v, ![a].next = NULL,
            ![a].mst = IF s = "C" THEN "init" ELSE h[a].mst,
            ![a].mowner = IF s = "C" THEN NoThread ELSE h[a].mowner]

\* Mutant: the new entry's key is left as malloc returned it.
InitEntryKeyUnset(h, a, k, v, head, s) ==
  [h EXCEPT ![a].val = v, ![a].next = head,
            ![a].mst = IF s = "C" THEN "init" ELSE h[a].mst,
            ![a].mowner = IF s = "C" THEN NoThread ELSE h[a].mowner]

\* e->key = key; e->val = val; [pthread_mutex_init;] e->next = table[i];
InitEntry(h, a, k, v, head, s) ==
  [h EXCEPT ![a].key = k, ![a].val = v, ![a].next = head,
            ![a].mst = IF s = "C" THEN "init" ELSE h[a].mst,
            ![a].mowner = IF s = "C" THEN NoThread ELSE h[a].mowner]

\* Mutant: the new entry is never published.
LinkHeadForgotten(tb, i, a) == tb

\* table[i] = e;
LinkHead(tb, i, a) == [tb EXCEPT ![i] = a]

\* result->key = b->key; result->val = b->val; result->next = NULL; [pthread_mutex_init;]
CopyEntry(h, r, b, s) ==
  [h EXCEPT ![r].key = h[b].key, ![r].val = h[b].val, ![r].next = NULL,
            ![r].mst = IF s = "C" THEN "init" ELSE h[r].mst,
            ![r].mowner = IF s = "C" THEN NoThread ELSE h[r].mowner]

\* Mutant: retrieve hands back the chain node itself.
ReturnedPtrAliases(r, b) == b

\* The pointer retrieve hands back: the copy, never the chain node.
ReturnedPtr(r, b) == r

\* Mutant: free also releases the block the freed one links to.
FreeNodeAndSuccessor(h, a) ==
  [b \in Addr |-> IF b = a \/ b = h[a].next THEN [h[b] EXCEPT !.st = "freed"] ELSE h[b]]

\* free(p)
FreeNode(h, a) == [h EXCEPT ![a].st = "freed"]

\* pthread_mutex_destroy(&p->entry_mutex)
DestroyMutex(h, a) == [h EXCEPT ![a].mst = "destroyed"]

\* The chain reached from address a, as the sequence of its addresses
\* (cut after MaxAddr + 1 nodes, so a cycle shows as an over-long chain).
RECURSIVE ChainFrom(_, _, _)
ChainFrom(h, a, n) ==
  IF a = NULL \/ n = 0 THEN <<>> ELSE <<a>> \o ChainFrom(h, h[a].next, n - 1)

Chain(h, tb, i) == ChainFrom(h, tb[i], MaxAddr + 1)

ChainSet(h, tb, i) == {Chain(h, tb, i)[j] : j \in 1 .. Len(Chain(h, tb, i))}

Linked(h, tb) == UNION {ChainSet(h, tb, i) : i \in Buckets}

\* The result of the scan loop for (b = head; b != NULL; b = b->next)
\* if (b->key == key): the first node of the chain holding the key, or NULL.
RECURSIVE ScanFrom(_, _, _, _)
ScanFrom(h, a, k, n) ==
  IF a = NULL \/ n = 0 THEN NULL
  ELSE IF h[a].key = k THEN a
  ELSE ScanFrom(h, h[a].next, k, n - 1)

Find(h, tb, k) == ScanFrom(h, tb[Slot(k)], k, MaxAddr + 1)

\* What a lookup of k observes: <<>> for not found, <<v>> for the stored value.
Lookup(h, tb, k) == IF Find(h, tb, k) = NULL THEN <<>> ELSE <<h[Find(h, tb, k)].val>>

\* Number of entries of the chain of k's bucket holding key k.
KeyCount(h, tb, k) ==
  Cardinality({j \in 1 .. Len(Chain(h, tb, Slot(k))) : h[Chain(h, tb, Slot(k))[j]].key = k})

\* ---------------------------------------------------------- lock primitives
\* Mutant: the shared acquisition does not wait for the writer.
CanRdIgnoresWriter(L, i) == TRUE

\* pthread_rwlock_rdlock: granted when no writer holds the lock.
CanRd(L, i) == L[i].writer = NoThread

\* Mutant: the shared acquisition is missing.
RdAcquireMissing(L, i, t) == L

RdAcquire(L, i, t) == [L EXCEPT ![i].readers = @ \cup {t}]
\* Mutant: the exclusive acquisition excludes nobody.
CanWrNoExclusion(L, i) == TRUE

\* pthread_spin_lock / pthread_rwlock_wrlock: granted when nobody holds the lock.
CanWr(L, i) == L[i].writer = NoThread /\ L[i].readers = {}
WrAcquire(L, i, t) == [L EXCEPT ![i].writer = t]
\* Mutant: the unlock is missing.
ReleaseForgotten(L, i, t) == L

\* pthread_spin_unlock / pthread_rwlock_unlock
Release(L, i, t) ==
  IF L[i].writer = t THEN [L EXCEPT ![i].writer = NoThread]
  ELSE [L EXCEPT ![i].readers = @ \ {t}]

\* Mutant: retrieve takes the bucket lock in shared mode under every strategy.
RetrieveSharedAlways(s) == TRUE

\* The mode in which retrieve takes the bucket lock.
RetrieveShared(s) == s # "A"

\* ------------------------------------------------------------------- Init
EmptyNode == [key |-> 0, val |-> 0, next |-> NULL, st |-> "free",
              mst |-> "none", mowner |-> NoThread]

\* memset(table, 0, ...) over an arena with nothing allocated.
EmptyTable == [heap |-> [a \in Addr |-> EmptyNode], table |-> [i \in Buckets |-> NULL]]

\* All inserts of put_phase, named by <<tid, index into keys>>.
Ops == Tids \X (0 .. (NUM_KEYS - 1))

\* The state after main's initialisation of the table and the locks, whatever
\* the program, the thread count and the keys.
InitBase ==
  /\ table = EmptyTable.table
  /\ heap = EmptyTable.heap
  /\ bucket_locks = [i \in Buckets |->
                       [writer |-> NoThread, readers |-> {}, destroyed |-> FALSE]]
  /\ kidx = [t \in Tids |-> 0]
  /\ arg_key = [t \in Tids |-> 0]
  /\ arg_val = [t \in Tids |-> 0]
  /\ calls = [t \in Tids |-> 0]
  /\ current = [t \in Tids |-> NULL]
  /\ e = [t \in Tids |-> NULL]
  /\ result = [t \in Tids |-> NULL]
  /\ lost = [t \in Tids |-> 0]
  /\ mi = 0
  /\ mcur = NULL
  /\ mnext = NULL
  /\ total_lost = 0
  /\ exited = FALSE
  /\ last_ret = [k \in KeyDomain |-> NoThread]
  /\ superseded = {}
  /\ ever_linked = {}
  /\ ins_returned = {}
  /\ after_insert = [t \in Tids |-> FALSE]
  /\ existed_at_call = [t \in Tids |-> FALSE]
  /\ td_freed = [a \in Addr |-> 0]
  /\ td_destroyed = [a \in Addr |-> 0]
  /\ td_order_ok = TRUE
  /\ eqA = EmptyTable
  /\ eqB = EmptyTable
  /\ eqC = EmptyTable
  /\ eq_n = 0
  /\ slot_key = 0
  /\ slot_ins = <<>>
  /\ slot_ret = <<>>

\* The driver: argv[1] in 1..MaxThreads, keys[] filled by random(), no thread yet.
Init ==
  /\ InitBase
  /\ strategy \in Strategies
  /\ num_threads \in 1 .. MaxThreads
  /\ keys \in [0 .. (NUM_KEYS - 1) -> KeyDomain]
  /\ pc = [t \in Tids |-> "idle"]
  /\ mpc = "m_create_put"

\* The arguments of the insert/retrieve call a worker is in.
ArgKey(t) == arg_key[t]
ArgVal(t) == arg_val[t]
ArgSlot(t) == Slot(ArgKey(t))

\* Inserts that have returned to put_phase (read during the insert phase only).
Returned ==
  {o \in Ops : o[1] < num_threads /\ o[2] % num_threads = o[1] /\ o[2] < kidx[o[1]]}

\* Mutant: Strategy C without its shared fast path.
InsertEntryAlwaysExclusive(s) == "i_xlock"

\* The first statement of insert after int i = key % NUM_BUCKETS: the shared
\* acquisition in C, the exclusive one in A and B.
InsertEntry(s) == IF s = "C" THEN "i_rdlock" ELSE "i_xlock"

\* --------------------------------------------------------------- put_phase
\* for (key = tid; key < NUM_KEYS; key += num_threads) insert(keys[key], tid);
\* The call enters insert at its first lock acquisition.
PutLoop(t) ==
  /\ pc[t] = "put_loop"
  /\ IF kidx[t] < NUM_KEYS
       THEN /\ pc' = [pc EXCEPT ![t] = InsertEntry(strategy)]
            /\ arg_key' = [arg_key EXCEPT ![t] = keys[kidx[t]]]
            /\ arg_val' = [arg_val EXCEPT ![t] = t]
            /\ superseded' = superseded \cup {o \in Returned : keys[o[2]] = keys[kidx[t]]}
            /\ existed_at_call' = [existed_at_call EXCEPT ![t] =
                                     Find(heap, table, keys[kidx[t]]) # NULL]
       ELSE /\ pc' = [pc EXCEPT ![t] = "put_exit"]
            /\ UNCHANGED <<arg_key, arg_val, superseded, existed_at_call>>
  /\ UNCHANGED <<cfgVars, memVars, bucket_locks, kidx, current, e, result, lost, calls,
                 mainVars, exited, last_ret, ever_linked, ins_returned, after_insert,
                 tdVars, eqVars>>

\* pthread_exit(NULL);
PutExit(t) ==
  /\ pc[t] = "put_exit"
  /\ pc' = [pc EXCEPT ![t] = "put_done"]
  /\ UNCHANGED <<argVars, cfgVars, memVars, bucket_locks, kidx, current, e, result, lost,
                 mainVars, exited, histVars, tdVars, eqVars>>

\* ------------------------------------------------------------------ insert
\* Strategy C: pthread_rwlock_rdlock(&bucket_locks[i]); current = table[i];
InsRdLock(t) ==
  /\ pc[t] = "i_rdlock"
  /\ CanRd(bucket_locks, ArgSlot(t))
  /\ bucket_locks' = RdAcquire(bucket_locks, ArgSlot(t), t)
  /\ current' = [current EXCEPT ![t] = table[ArgSlot(t)]]
  /\ pc' = [pc EXCEPT ![t] = "i_scan1"]
  /\ UNCHANGED <<argVars, cfgVars, memVars, kidx, e, result, lost, mainVars, exited,
                 histVars, tdVars, eqVars>>

\* Strategy C, one iteration of the shared-mode scan.
InsScan1(t) ==
  /\ pc[t] = "i_scan1"
  /\ IF current[t] = NULL
       THEN /\ pc' = [pc EXCEPT ![t] = "i_rdunlock_miss"]
            /\ UNCHANGED current
       ELSE IF heap[current[t]].key = ArgKey(t)
         THEN /\ pc' = [pc EXCEPT ![t] = "i_mlock1"]
              /\ UNCHANGED current
         ELSE /\ current' = [current EXCEPT ![t] = heap[current[t]].next]
              /\ UNCHANGED pc
  /\ UNCHANGED <<argVars, cfgVars, memVars, bucket_locks, kidx, e, result, lost, mainVars,
                 exited, histVars, tdVars, eqVars>>

\* Strategy C: pthread_mutex_lock(&current->entry_mutex);
InsEntryLock(t) ==
  /\ pc[t] \in {"i_mlock1", "i_mlock2"}
  /\ heap[current[t]].mowner = NoThread
  /\ heap' = [heap EXCEPT ![current[t]].mowner = t]
  /\ pc' = [pc EXCEPT ![t] = IF pc[t] = "i_mlock1" THEN "i_write1" ELSE "i_write2"]
  /\ UNCHANGED <<argVars, cfgVars, table, bucket_locks, kidx, current, e, result, lost,
                 mainVars, exited, histVars, tdVars, eqVars>>

\* current->val = val;
InsWrite(t) ==
  /\ pc[t] \in {"i_write1", "i_write2"}
  /\ heap' = WriteVal(heap, current[t], ArgVal(t))
  /\ pc' = [pc EXCEPT ![t] =
              IF strategy # "C" THEN "i_xunlock_upd"
              ELSE IF pc[t] = "i_write1" THEN "i_munlock1" ELSE "i_munlock2"]
  /\ UNCHANGED <<argVars, cfgVars, table, bucket_locks, kidx, current, e, result, lost,
                 mainVars, exited, histVars, tdVars, eqVars>>

\* Strategy C: pthread_mutex_unlock(&current->entry_mutex);
InsEntryUnlock(t) ==
  /\ pc[t] \in {"i_munlock1", "i_munlock2"}
  /\ heap' = [heap EXCEPT ![current[t]].mowner = NoThread]
  /\ pc' = [pc EXCEPT ![t] = IF pc[t] = "i_munlock1" THEN "i_rdunlock_hit" ELSE "i_xunlock_upd"]
  /\ UNCHANGED <<argVars, cfgVars, table, bucket_locks, kidx, current, e, result, lost,
                 mainVars, exited, histVars, tdVars, eqVars>>

\* Strategy C: pthread_rwlock_unlock after the shared-mode scan; a hit returns,
\* a miss goes on to the exclusive acquisition.
InsRdUnlock(t) ==
  /\ pc[t] \in {"i_rdunlock_hit", "i_rdunlock_miss"}
  /\ bucket_locks' = Release(bucket_locks, ArgSlot(t), t)
  /\ pc' = [pc EXCEPT ![t] = IF pc[t] = "i_rdunlock_hit" THEN "i_ret_fast" ELSE "i_xlock"]
  /\ UNCHANGED <<argVars, cfgVars, memVars, kidx, current, e, result, lost, mainVars, exited,
                 histVars, tdVars, eqVars>>

\* Mutant: Strategy C links without the double-check.
AfterXLockNoRecheck(s) == IF s = "C" THEN "i_alloc" ELSE "i_scan2"

\* After the exclusive acquisition the chain is scanned from its head: the only
\* scan of A and B, the double-check of C.
AfterXLock(s) == "i_scan2"

\* pthread_spin_lock / pthread_rwlock_wrlock(&bucket_locks[i]); current = table[i];
InsXLock(t) ==
  /\ pc[t] = "i_xlock"
  /\ CanWr(bucket_locks, ArgSlot(t))
  /\ bucket_locks' = WrAcquire(bucket_locks, ArgSlot(t), t)
  /\ current' = [current EXCEPT ![t] = table[ArgSlot(t)]]
  /\ pc' = [pc EXCEPT ![t] = AfterXLock(strategy)]
  /\ UNCHANGED <<argVars, cfgVars, memVars, kidx, e, result, lost, mainVars, exited,
                 histVars, tdVars, eqVars>>

\* Where a scan under the exclusive lock goes when it meets the key.
Scan2Hit(s) == IF s = "C" THEN "i_mlock2" ELSE "i_write2"

\* One iteration of the scan under the exclusive lock (the only scan of A and B,
\* the double-check of C).
InsScan2(t) ==
  /\ pc[t] = "i_scan2"
  /\ IF current[t] = NULL
       THEN /\ pc' = [pc EXCEPT ![t] = "i_alloc"]
            /\ UNCHANGED current
       ELSE IF heap[current[t]].key = ArgKey(t)
         THEN /\ pc' = [pc EXCEPT ![t] = Scan2Hit(strategy)]
              /\ UNCHANGED current
         ELSE /\ current' = [current EXCEPT ![t] = heap[current[t]].next]
              /\ UNCHANGED pc
  /\ UNCHANGED <<argVars, cfgVars, memVars, bucket_locks, kidx, e, result, lost, mainVars,
                 exited, histVars, tdVars, eqVars>>

\* bucket_entry *e = malloc(sizeof(bucket_entry)); succeeding
InsAlloc(t) ==
  /\ pc[t] = "i_alloc"
  /\ e' = [e EXCEPT ![t] = Malloc(heap)]
  /\ heap' = [heap EXCEPT ![Malloc(heap)].st = "alloc"]
  /\ pc' = [pc EXCEPT ![t] = "i_link"]
  /\ UNCHANGED <<argVars, cfgVars, table, bucket_locks, kidx, current, result, lost,
                 mainVars, exited, histVars, tdVars, eqVars>>

\* malloc returning NULL: if (!e) { unlock; panic(...); }
InsAllocFail(t) ==
  /\ pc[t] = "i_alloc"
  /\ e' = [e EXCEPT ![t] = NULL]
  /\ pc' = [pc EXCEPT ![t] = "i_fail_unlock"]
  /\ UNCHANGED <<argVars, cfgVars, memVars, bucket_locks, kidx, current, result, lost,
                 mainVars, exited, histVars, tdVars, eqVars>>

\* e->key = key; e->val = val; [mutex init;] e->next = table[i]; table[i] = e;
InsLink(t) ==
  /\ pc[t] = "i_link"
  /\ heap' = InitEntry(heap, e[t], ArgKey(t), ArgVal(t), table[ArgSlot(t)], strategy)
  /\ table' = LinkHead(table, ArgSlot(t), e[t])
  /\ ever_linked' = ever_linked \cup {e[t]}
  /\ pc' = [pc EXCEPT ![t] = "i_xunlock_new"]
  /\ UNCHANGED <<argVars, cfgVars, bucket_locks, kidx, current, e, result, lost,
                 mainVars, exited, last_ret, superseded, visVars, tdVars, eqVars>>

\* pthread_spin_unlock / pthread_rwlock_unlock of the exclusive hold: before the
\* return after an update, before the return after a link, or before panic on
\* the allocation-failure path.
InsXUnlock(t) ==
  /\ pc[t] \in {"i_xunlock_upd", "i_xunlock_new", "i_fail_unlock"}
  /\ bucket_locks' = Release(bucket_locks, ArgSlot(t), t)
  /\ pc' = [pc EXCEPT ![t] = CASE pc[t] = "i_xunlock_upd" -> "i_ret_upd"
                                [] pc[t] = "i_xunlock_new" -> "i_ret_new"
                                [] OTHER -> "i_panic"]
  /\ UNCHANGED <<argVars, cfgVars, memVars, kidx, current, e, result, lost, mainVars, exited,
                 histVars, tdVars, eqVars>>

\* The three return points of insert: after the update under the shared lock (C),
\* after the update under the exclusive lock, after linking a new entry.
InsRetPcs == {"i_ret_fast", "i_ret_upd", "i_ret_new"}

\* insert returns to put_phase, which advances its loop variable.
InsRet(t) ==
  /\ pc[t] \in InsRetPcs
  /\ last_ret' = [last_ret EXCEPT ![ArgKey(t)] = ArgVal(t)]
  /\ ins_returned' = ins_returned \cup {ArgKey(t)}
  /\ kidx' = [kidx EXCEPT ![t] = @ + num_threads]
  /\ current' = [current EXCEPT ![t] = NULL]
  /\ e' = [e EXCEPT ![t] = NULL]
  /\ pc' = [pc EXCEPT ![t] = "put_loop"]
  /\ UNCHANGED <<argVars, cfgVars, memVars, bucket_locks, result, lost, mainVars, exited,
                 superseded, ever_linked, after_insert, existed_at_call, tdVars, eqVars>>

\* panic: printf; exit(1);  The process ends: no thread takes another step.
Panic(t) ==
  /\ pc[t] \in {"i_panic", "r_panic"}
  /\ exited' = TRUE
  /\ pc' = [u \in Tids |-> IF u = t THEN "panicked" ELSE "killed"]
  /\ mpc' = "killed"
  /\ UNCHANGED <<argVars, cfgVars, memVars, bucket_locks, kidx, current, e, result, lost,
                 mi, mcur, mnext, total_lost, histVars, tdVars, eqVars>>

\* ---------------------------------------------------------------- retrieve
\* pthread_spin_lock (A) / pthread_rwlock_rdlock (B, C); b = table[i];
RetLock(t) ==
  /\ pc[t] = "r_lock"
  /\ IF RetrieveShared(strategy)
       THEN /\ CanRd(bucket_locks, ArgSlot(t))
            /\ bucket_locks' = RdAcquire(bucket_locks, ArgSlot(t), t)
       ELSE /\ CanWr(bucket_locks, ArgSlot(t))
            /\ bucket_locks' = WrAcquire(bucket_locks, ArgSlot(t), t)
  /\ current' = [current EXCEPT ![t] = table[ArgSlot(t)]]
  /\ pc' = [pc EXCEPT ![t] = "r_scan"]
  /\ UNCHANGED <<argVars, cfgVars, memVars, kidx, e, result, lost, mainVars, exited,
                 histVars, tdVars, eqVars>>

\* Mutant: Strategy C's retrieve copies without taking the entry mutex.
RetHitNoEntryLock(s) == "r_alloc"

\* Where retrieve's scan goes when it meets the key.
RetHit(s) == IF s = "C" THEN "r_mlock" ELSE "r_alloc"

\* One iteration of for (b = table[i]; b != NULL; b = b->next) if (b->key == key)
RetScan(t) ==
  /\ pc[t] = "r_scan"
  /\ IF current[t] = NULL
       THEN /\ pc' = [pc EXCEPT ![t] = "r_unlock_miss"]
            /\ UNCHANGED current
       ELSE IF heap[current[t]].key = ArgKey(t)
         THEN /\ pc' = [pc EXCEPT ![t] = RetHit(strategy)]
              /\ UNCHANGED current
         ELSE /\ current' = [current EXCEPT ![t] = heap[current[t]].next]
              /\ UNCHANGED pc
  /\ UNCHANGED <<argVars, cfgVars, memVars, bucket_locks, kidx, e, result, lost, mainVars,
                 exited, histVars, tdVars, eqVars>>

\* Strategy C: pthread_mutex_lock(&b->entry_mutex);
RetEntryLock(t) ==
  /\ pc[t] = "r_mlock"
  /\ heap[current[t]].mowner = NoThread
  /\ heap' = [heap EXCEPT ![current[t]].mowner = t]
  /\ pc' = [pc EXCEPT ![t] = "r_alloc"]
  /\ UNCHANGED <<argVars, cfgVars, table, bucket_locks, kidx, current, e, result, lost,
                 mainVars, exited, histVars, tdVars, eqVars>>

\* bucket_entry *result = malloc(sizeof(bucket_entry)); succeeding
RetAlloc(t) ==
  /\ pc[t] = "r_alloc"
  /\ result' = [result EXCEPT ![t] = Malloc(heap)]
  /\ heap' = [heap EXCEPT ![Malloc(heap)].st = "alloc"]
  /\ pc' = [pc EXCEPT ![t] = "r_copy"]
  /\ UNCHANGED <<argVars, cfgVars, table, bucket_locks, kidx, current, e, lost,
                 mainVars, exited, histVars, tdVars, eqVars>>

\* Mutant: the failure path forgets the entry mutex.
RetFailNextSkipsEntry(s) == "r_fail_unlock"

\* The first unlock of retrieve's allocation-failure path.
RetFailNext(s) == IF s = "C" THEN "r_fail_munlock" ELSE "r_fail_unlock"

\* malloc returning NULL: if (!result) { [entry unlock;] bucket unlock; panic(...); }
RetAllocFail(t) ==
  /\ pc[t] = "r_alloc"
  /\ result' = [result EXCEPT ![t] = NULL]
  /\ pc' = [pc EXCEPT ![t] = RetFailNext(strategy)]
  /\ UNCHANGED <<argVars, cfgVars, memVars, bucket_locks, kidx, current, e, lost,
                 mainVars, exited, histVars, tdVars, eqVars>>

\* result->key = b->key; result->val = b->val; result->next = NULL; [mutex init;]
RetCopy(t) ==
  /\ pc[t] = "r_copy"
  /\ heap' = CopyEntry(heap, result[t], current[t], strategy)
  /\ pc' = [pc EXCEPT ![t] = IF strategy = "C" THEN "r_munlock" ELSE "r_unlock_hit"]
  /\ UNCHANGED <<argVars, cfgVars, table, bucket_locks, kidx, current, e, result, lost,
                 mainVars, exited, histVars, tdVars, eqVars>>

\* Strategy C: pthread_mutex_unlock(&b->entry_mutex); after the copy, or before
\* panic on the allocation-failure path.
RetEntryUnlock(t) ==
  /\ pc[t] \in {"r_munlock", "r_fail_munlock"}
  /\ heap' = [heap EXCEPT ![current[t]].mowner = NoThread]
  /\ pc' = [pc EXCEPT ![t] = IF pc[t] = "r_munlock" THEN "r_unlock_hit" ELSE "r_fail_unlock"]
  /\ UNCHANGED <<argVars, cfgVars, table, bucket_locks, kidx, current, e, result, lost,
                 mainVars, exited, histVars, tdVars, eqVars>>

\* pthread_spin_unlock / pthread_rwlock_unlock(&bucket_locks[i]); on a hit, on a
\* miss, or before panic.
RetUnlock(t) ==
  /\ pc[t] \in {"r_unlock_hit", "r_unlock_miss", "r_fail_unlock"}
  /\ bucket_locks' = Release(bucket_locks, ArgSlot(t), t)
  /\ pc' = [pc EXCEPT ![t] = IF pc[t] = "r_fail_unlock" THEN "r_panic" ELSE "r_ret"]
  /\ UNCHANGED <<argVars, cfgVars, memVars, kidx, current, e, result, lost, mainVars, exited,
                 histVars, tdVars, eqVars>>

\* return result; / return NULL;  back in get_phase: if (entry == NULL) lost++;
\* a found entry goes on to be freed.
RetRet(t) ==
  /\ pc[t] = "r_ret"
  /\ IF result[t] = NULL
       THEN /\ lost' = [lost EXCEPT ![t] = @ + 1]
            /\ kidx' = [kidx EXCEPT ![t] = @ + num_threads]
            /\ pc' = [pc EXCEPT ![t] = "get_loop"]
            /\ UNCHANGED result
       ELSE /\ result' = [result EXCEPT ![t] = ReturnedPtr(result[t], current[t])]
            /\ pc' = [pc EXCEPT ![t] = "g_free"]
            /\ UNCHANGED <<lost, kidx>>
  /\ current' = [current EXCEPT ![t] = NULL]
  /\ UNCHANGED <<argVars, cfgVars, memVars, bucket_locks, e, mainVars, exited, histVars,
                 tdVars, eqVars>>

\* --------------------------------------------------------------- get_phase
\* for (key = tid; key < NUM_KEYS; key += num_threads) entry = retrieve(keys[key]);
GetLoop(t) ==
  /\ pc[t] = "get_loop"
  /\ IF kidx[t] < NUM_KEYS
       THEN /\ pc' = [pc EXCEPT ![t] = "r_lock"]
            /\ arg_key' = [arg_key EXCEPT ![t] = keys[kidx[t]]]
            /\ after_insert' = [after_insert EXCEPT ![t] = keys[kidx[t]] \in ins_returned]
       ELSE /\ pc' = [pc EXCEPT ![t] = "get_exit"]
            /\ UNCHANGED <<arg_key, after_insert>>
  /\ UNCHANGED <<cfgVars, memVars, bucket_locks, kidx, current, e, result, lost,
                 arg_val, calls, mainVars, exited, last_ret, superseded, ever_linked,
                 ins_returned, existed_at_call, tdVars, eqVars>>

\* [pthread_mutex_destroy(&entry->entry_mutex);] free(entry);
GetFree(t) ==
  /\ pc[t] = "g_free"
  /\ heap' = FreeNode(IF strategy = "C" THEN DestroyMutex(heap, result[t]) ELSE heap,
                      result[t])
  /\ result' = [result EXCEPT ![t] = NULL]
  /\ kidx' = [kidx EXCEPT ![t] = @ + num_threads]
  /\ pc' = [pc EXCEPT ![t] = "get_loop"]
  /\ UNCHANGED <<argVars, cfgVars, table, bucket_locks, current, e, lost, mainVars, exited,
                 histVars, tdVars, eqVars>>

\* printf(...); pthread_exit((void *)lost);
GetExit(t) ==
  /\ pc[t] = "get_exit"
  /\ pc' = [pc EXCEPT ![t] = "get_done"]
  /\ UNCHANGED <<argVars, cfgVars, memVars, bucket_locks, kidx, current, e, result, lost,
                 mainVars, exited, histVars, tdVars, eqVars>>

\* -------------------------------------------------------------------- main
\* Advance main's loop over the workers; after the last one go to `nxt`.
MainStep(nxt) ==
  IF mi + 1 < num_threads
    THEN /\ mi' = mi + 1
         /\ UNCHANGED mpc
    ELSE /\ mi' = 0
         /\ mpc' = nxt

\* Mutant: main goes on without waiting for the thread.
ThreadExitedUnchecked(t, donePc) == TRUE

\* pthread_join(threads[t], ...) returns once thread t has called pthread_exit.
ThreadExited(t, donePc) == pc[t] = donePc

\* pthread_create(&threads[i], NULL, put_phase, (void *)i);
MainCreatePut ==
  /\ mpc = "m_create_put"
  /\ pc' = [pc EXCEPT ![mi] = "put_loop"]
  /\ kidx' = [kidx EXCEPT ![mi] = mi]
  /\ MainStep("m_join_put")
  /\ UNCHANGED <<argVars, cfgVars, memVars, bucket_locks, current, e, result, lost, mcur,
                 mnext, total_lost, exited, histVars, tdVars, eqVars>>

\* pthread_join(threads[i], NULL);
MainJoinPut ==
  /\ mpc = "m_join_put"
  /\ ThreadExited(mi, "put_done")
  /\ MainStep("m_create_get")
  /\ UNCHANGED <<cfgVars, memVars, bucket_locks, workerVars, mcur, mnext,
                 total_lost, exited, histVars, tdVars, eqVars>>

\* pthread_create(&threads[i], NULL, get_phase, (void *)i);
MainCreateGet ==
  /\ mpc = "m_create_get"
  /\ pc' = [pc EXCEPT ![mi] = "get_loop"]
  /\ kidx' = [kidx EXCEPT ![mi] = mi]
  /\ lost' = [lost EXCEPT ![mi] = 0]
  /\ MainStep("m_join_get")
  /\ UNCHANGED <<argVars, cfgVars, memVars, bucket_locks, current, e, result, mcur,
                 mnext, total_lost, exited, histVars, tdVars, eqVars>>

\* pthread_join(threads[i], (void **)&lost_keys[i]); total_lost += lost_keys[i];
MainJoinGet ==
  /\ mpc = "m_join_get"
  /\ ThreadExited(mi, "get_done")
  /\ total_lost' = total_lost + lost[mi]
  /\ MainStep("m_td_lock")
  /\ UNCHANGED <<cfgVars, memVars, bucket_locks, workerVars, mcur, mnext, exited,
                 histVars, tdVars, eqVars>>

\* Teardown, bucket i: pthread_spin_lock / pthread_rwlock_wrlock; current = table[i];
TdLock ==
  /\ mpc = "m_td_lock"
  /\ CanWr(bucket_locks, mi)
  /\ bucket_locks' = WrAcquire(bucket_locks, mi, MainTid)
  /\ mcur' = table[mi]
  /\ mpc' = "m_td_walk"
  /\ UNCHANGED <<cfgVars, memVars, workerVars, mi, mnext, total_lost, exited, histVars, tdVars, eqVars>>

\* Mutant: teardown stops after the head of each chain.
TdNextStops(h, a) == NULL

\* bucket_entry *next = current->next;
TdNext(h, a) == h[a].next

\* while (current != NULL) { next = current->next; [pthread_mutex_destroy;] ...
TdWalk ==
  /\ mpc = "m_td_walk"
  /\ IF mcur = NULL
       THEN /\ mpc' = "m_td_unlock"
            /\ UNCHANGED <<heap, mnext, tdVars>>
       ELSE /\ mnext' = TdNext(heap, mcur)
            /\ heap' = IF strategy = "C" THEN DestroyMutex(heap, mcur) ELSE heap
            /\ td_destroyed' = [td_destroyed EXCEPT ![mcur] =
                                  IF strategy = "C" THEN @ + 1 ELSE @]
            /\ td_order_ok' = (td_order_ok /\ heap[mcur].st = "alloc"
                               /\ (strategy = "C" =>
                                     /\ heap[mcur].mst = "init"
                                     /\ heap[mcur].mowner = NoThread))
            /\ mpc' = "m_td_free"
            /\ UNCHANGED td_freed
  /\ UNCHANGED <<cfgVars, table, bucket_locks, workerVars, mi, mcur, total_lost,
                 exited, histVars, eqVars>>

\* ... free(current); current = next; }
TdFree ==
  /\ mpc = "m_td_free"
  /\ heap' = FreeNode(heap, mcur)
  /\ td_freed' = [td_freed EXCEPT ![mcur] = @ + 1]
  /\ td_order_ok' = (td_order_ok /\ heap[mcur].st = "alloc"
                     /\ (strategy = "C" => heap[mcur].mst = "destroyed"))
  /\ mcur' = mnext
  /\ mpc' = "m_td_walk"
  /\ UNCHANGED <<cfgVars, table, bucket_locks, workerVars, mi, mnext, total_lost,
                 exited, histVars, td_destroyed, eqVars>>

\* pthread_spin_unlock / pthread_rwlock_unlock(&bucket_locks[i]);
TdUnlock ==
  /\ mpc = "m_td_unlock"
  /\ bucket_locks' = Release(bucket_locks, mi, MainTid)
  /\ mpc' = "m_td_destroy"
  /\ UNCHANGED <<cfgVars, memVars, workerVars, mi, mcur, mnext, total_lost,
                 exited, histVars, tdVars, eqVars>>

\* pthread_spin_destroy / pthread_rwlock_destroy(&bucket_locks[i]); i++
TdDestroy ==
  /\ mpc = "m_td_destroy"
  /\ bucket_locks' = [bucket_locks EXCEPT ![mi].destroyed = TRUE]
  /\ IF mi + 1 < NUM_BUCKETS
       THEN /\ mi' = mi + 1
            /\ mpc' = "m_td_lock"
       ELSE /\ mi' = 0
            /\ mpc' = "m_done"
  /\ UNCHANGED <<cfgVars, memVars, workerVars, mcur, mnext, total_lost, exited,
                 histVars, tdVars, eqVars>>

\* ---------------------------------------------------------- specification
Worker(t) ==
  \/ PutLoop(t) \/ PutExit(t)
  \/ InsRdLock(t) \/ InsScan1(t) \/ InsEntryLock(t) \/ InsWrite(t)
  \/ InsEntryUnlock(t) \/ InsRdUnlock(t) \/ InsXLock(t) \/ InsScan2(t)
  \/ InsAlloc(t) \/ InsAllocFail(t) \/ InsLink(t) \/ InsXUnlock(t) \/ InsRet(t)
  \/ Panic(t)
  \/ RetLock(t) \/ RetScan(t) \/ RetEntryLock(t) \/ RetAlloc(t) \/ RetAllocFail(t)
  \/ RetCopy(t) \/ RetEntryUnlock(t) \/ RetUnlock(t) \/ RetRet(t)
  \/ GetLoop(t) \/ GetFree(t) \/ GetExit(t)

Main ==
  \/ MainCreatePut \/ MainJoinPut \/ MainCreateGet \/ MainJoinGet
  \/ TdLock \/ TdWalk \/ TdFree \/ TdUnlock \/ TdDestroy

Next ==
  \/ \E t \in Tids : Worker(t)
  \/ Main

Spec == Init /\ [][Next]_vars

\* ------------------------------------------------- the table used directly
\* SpecApi: the same insert and retrieve, called by workers in any order and
\* with any key, so that inserts and lookups overlap (the driver never overlaps
\* them).  A worker makes MaxCalls calls; insert is passed the caller's id.
InitApi ==
  /\ InitBase
  /\ strategy \in Strategies
  /\ num_threads \in 1 .. MaxThreads
  /\ keys = [j \in 0 .. (NUM_KEYS - 1) |-> 0]
  /\ pc = [t \in Tids |-> IF t < num_threads THEN "api_idle" ELSE "idle"]
  /\ mpc = "m_api"

\* insert(k, t);
ApiCallInsert(t) ==
  /\ pc[t] = "api_idle"
  /\ calls[t] < MaxCalls
  /\ \E k \in KeyDomain :
       /\ arg_key' = [arg_key EXCEPT ![t] = k]
       /\ existed_at_call' = [existed_at_call EXCEPT ![t] = Find(heap, table, k) # NULL]
  /\ arg_val' = [arg_val EXCEPT ![t] = t]
  /\ calls' = [calls EXCEPT ![t] = @ + 1]
  /\ pc' = [pc EXCEPT ![t] = InsertEntry(strategy)]
  /\ UNCHANGED <<cfgVars, memVars, bucket_locks, kidx, current, e, result, lost,
                 mainVars, exited, last_ret, superseded, ever_linked, ins_returned,
                 after_insert, tdVars, eqVars>>

\* entry = retrieve(k);
ApiCallRetrieve(t) ==
  /\ pc[t] = "api_idle"
  /\ calls[t] < MaxCalls
  /\ \E k \in KeyDomain :
       /\ arg_key' = [arg_key EXCEPT ![t] = k]
       /\ after_insert' = [after_insert EXCEPT ![t] = k \in ins_returned]
  /\ calls' = [calls EXCEPT ![t] = @ + 1]
  /\ pc' = [pc EXCEPT ![t] = "r_lock"]
  /\ UNCHANGED <<cfgVars, memVars, bucket_locks, kidx, current, e, result, lost,
                 arg_val, mainVars, exited, last_ret, superseded, ever_linked,
                 ins_returned, existed_at_call, tdVars, eqVars>>

\* insert returns to its caller.
ApiInsRet(t) ==
  /\ pc[t] \in InsRetPcs
  /\ current' = [current EXCEPT ![t] = NULL]
  /\ e' = [e EXCEPT ![t] = NULL]
  /\ ins_returned' = ins_returned \cup {ArgKey(t)}
  /\ pc' = [pc EXCEPT ![t] = "api_idle"]
  /\ UNCHANGED <<argVars, cfgVars, memVars, bucket_locks, kidx, result, lost,
                 mainVars, exited, last_ret, superseded, ever_linked, after_insert,
                 existed_at_call, tdVars, eqVars>>

\* retrieve returns to its caller: NULL, or the pointer the caller will free.
ApiRetRet(t) ==
  /\ pc[t] = "r_ret"
  /\ IF result[t] = NULL
       THEN /\ lost' = [lost EXCEPT ![t] = @ + 1]
            /\ pc' = [pc EXCEPT ![t] = "api_idle"]
            /\ UNCHANGED result
       ELSE /\ result' = [result EXCEPT ![t] = ReturnedPtr(result[t], current[t])]
            /\ pc' = [pc EXCEPT ![t] = "g_free"]
            /\ UNCHANGED lost
  /\ current' = [current EXCEPT ![t] = NULL]
  /\ UNCHANGED <<argVars, cfgVars, memVars, bucket_locks, kidx, e, mainVars, exited,
                 histVars, tdVars, eqVars>>

\* [pthread_mutex_destroy(&entry->entry_mutex);] free(entry);
ApiFree(t) ==
  /\ pc[t] = "g_free"
  /\ heap' = FreeNode(IF strategy = "C" THEN DestroyMutex(heap, result[t]) ELSE heap,
                      result[t])
  /\ result' = [result EXCEPT ![t] = NULL]
  /\ pc' = [pc EXCEPT ![t] = "api_idle"]
  /\ UNCHANGED <<argVars, cfgVars, table, bucket_locks, kidx, current, e, lost,
                 mainVars, exited, histVars, tdVars, eqVars>>

ApiWorker(t) ==
  \/ ApiCallInsert(t) \/ ApiCallRetrieve(t)
  \/ InsRdLock(t) \/ InsScan1(t) \/ InsEntryLock(t) \/ InsWrite(t)
  \/ InsEntryUnlock(t) \/ InsRdUnlock(t) \/ InsXLock(t) \/ InsScan2(t)
  \/ InsAlloc(t) \/ InsAllocFail(t) \/ InsLink(t) \/ InsXUnlock(t) \/ ApiInsRet(t)
  \/ Panic(t)
  \/ RetLock(t) \/ RetScan(t) \/ RetEntryLock(t) \/ RetAlloc(t) \/ RetAllocFail(t)
  \/ RetCopy(t) \/ RetEntryUnlock(t) \/ RetUnlock(t) \/ ApiRetRet(t) \/ ApiFree(t)

NextApi == \E t \in Tids : ApiWorker(t)

SpecApi == InitApi /\ [][NextApi]_vars

\* ------------------------------------------- one caller, three strategies
\* SpecEq: one thread applies the same inserts to a table of each strategy.
\* With one thread every lock acquisition succeeds at once, so a call is the
\* composition of its steps; allocation is taken to succeed (its failure ends
\* the process under every strategy alike).

\* current->val = val; on the node the scan stopped at.
SeqUpdate(st, a, v) == [st EXCEPT !.heap = WriteVal(st.heap, a, v)]

\* malloc; e->key = key; e->val = val; [mutex init;] e->next = table[i]; table[i] = e;
SeqLink(st, k, v, s) ==
  LET a == Malloc(st.heap)
  IN  [heap  |-> InitEntry([st.heap EXCEPT ![a].st = "alloc"], a, k, v,
                           st.table[Slot(k)], s),
       table |-> LinkHead(st.table, Slot(k), a)]

\* insert of src/parallel_spin.c run alone: scan, then update or link.
InsertA(st, k, v) ==
  IF Find(st.heap, st.table, k) # NULL
    THEN SeqUpdate(st, Find(st.heap, st.table, k), v)
    ELSE SeqLink(st, k, v, "A")

\* insert of src/unnamed/part_000 run alone: scan, then update or link.
InsertB(st, k, v) ==
  IF Find(st.heap, st.table, k) # NULL
    THEN SeqUpdate(st, Find(st.heap, st.table, k), v)
    ELSE SeqLink(st, k, v, "B")

\* Mutant: the fast path returns without writing the value.
InsertCFastNoWrite(st, k, v) ==
  IF Find(st.heap, st.table, k) # NULL THEN st ELSE SeqLink(st, k, v, "C")

\* insert of src/unnamed/part_001 run alone: shared scan and update, else
\* exclusive re-scan and update, else link.
InsertC(st, k, v) ==
  IF Find(st.heap, st.table, k) # NULL
    THEN SeqUpdate(st, Find(st.heap, st.table, k), v)
    ELSE IF Find(st.heap, st.table, k) # NULL
      THEN SeqUpdate(st, Find(st.heap, st.table, k), v)
      ELSE SeqLink(st, k, v, "C")

\* The values the caller passes.
EqVals == Tids

InitEq ==
  /\ InitBase
  /\ strategy = "A"
  /\ num_threads = 1
  /\ keys = [j \in 0 .. (NUM_KEYS - 1) |-> 0]
  /\ pc = [t \in Tids |-> "idle"]
  /\ mpc = "m_eq"

EqInsert ==
  /\ eq_n < MaxSeq
  /\ \E k \in KeyDomain, v \in EqVals :
       /\ eqA' = InsertA(eqA, k, v)
       /\ eqB' = InsertB(eqB, k, v)
       /\ eqC' = InsertC(eqC, k, v)
  /\ eq_n' = eq_n + 1
  /\ UNCHANGED <<cfgVars, memVars, bucket_locks, workerVars, mainVars, exited,
                 histVars, tdVars, slotVars>>

NextEq == EqInsert

SpecEq == InitEq /\ [][NextEq]_vars

\* What lookups of every key observe on a table.
ObsMap(st) == [k \in KeyDomain |-> Lookup(st.heap, st.table, k)]

\* ----------------------------------------------------------- claim helpers
Workers == 0 .. (num_threads - 1)
KeyIdx == 0 .. (NUM_KEYS - 1)

\* The worker whose put_phase/get_phase loop visits index j of keys.
OwnerOf(j) == j % num_threads

\* Every key value is inserted by one worker only.
SingleWriter == \A i \in KeyIdx, j \in KeyIdx : keys[i] = keys[j] => OwnerOf(i) = OwnerOf(j)

InsertPhaseJoined == mpc \in {"m_create_get", "m_join_get", "m_td_lock"}

\* Bucket locks and entry locks a thread holds.
HeldBuckets(t) == {i \in Buckets : bucket_locks[i].writer = t \/ t \in bucket_locks[i].readers}
HeldEntries(t) == {a \in Addr : heap[a].mst = "init" /\ heap[a].mowner = t}

\* ---------------------------------------------------------------------- C1
\* C1: when every key is inserted by exactly one worker and the lookups start
\* after the join of the insert phase, no lookup ends not-found: no worker is on
\* retrieve's not-found path, every lost counter is 0 and so is their sum.
C1_NoLoss ==
  SingleWriter =>
    /\ \A t \in Tids : pc[t] # "r_unlock_miss" /\ lost[t] = 0
    /\ \A t \in Tids : pc[t] = "r_ret" => result[t] # NULL
    /\ total_lost = 0

\* Both workers' lookups of colliding keys were joined with nothing lost.
C1_Witness ==
  /\ SingleWriter /\ num_threads = 2
  /\ mpc = "m_td_lock"
  /\ Slot(keys[0]) = Slot(keys[1]) /\ keys[0] # keys[1]
  /\ total_lost = 0

\* ---------------------------------------------------------------------- C2
\* C2: in every reachable state no bucket chain holds two entries with the
\* same key, whatever the strategy and the interleaving.
C2_Unique ==
  \A i \in Buckets :
    \A p, q \in 1 .. Len(Chain(heap, table, i)) :
      p # q => heap[Chain(heap, table, i)[p]].key # heap[Chain(heap, table, i)[q]].key

\* A worker has just linked a second entry into a chain while another worker is
\* entering a lookup of the same key.
C2_Witness ==
  /\ strategy = "B"
  /\ \E t \in Tids, u \in Tids :
       /\ pc[t] = "i_xunlock_new" /\ pc[u] = "r_lock" /\ ArgKey(t) = ArgKey(u)
       /\ Len(Chain(heap, table, ArgSlot(t))) = 2

\* ---------------------------------------------------------------------- C3
\* C3: Strategy C, two workers took the slow path for the same key (both scanned
\* under the shared lock and found nothing) and no third worker inserts that key:
\* when both are about to return, the chain holds exactly one entry for the key
\* and its value is the value one of the two passed.
C3_DoubleChecked ==
  strategy = "C" =>
    \A t \in Tids, u \in Tids :
      ( /\ t # u
        /\ pc[t] \in {"i_ret_upd", "i_ret_new"} /\ pc[u] \in {"i_ret_upd", "i_ret_new"}
        /\ ArgKey(t) = ArgKey(u)
        /\ \A j \in KeyIdx : keys[j] = ArgKey(t) => OwnerOf(j) \in {t, u} )
      => /\ KeyCount(heap, table, ArgKey(t)) = 1
         /\ Lookup(heap, table, ArgKey(t)) \in {<<ArgVal(t)>>, <<ArgVal(u)>>}

\* One of the two linked the entry, the other found it in the double-check.
C3_Witness ==
  /\ strategy = "C"
  /\ pc[0] = "i_ret_new" /\ pc[1] = "i_ret_upd" /\ ArgKey(0) = ArgKey(1)
  /\ Lookup(heap, table, ArgKey(0)) = <<ArgVal(1)>>

\* ---------------------------------------------------------------------- C4
KeysInserted == {keys[j] : j \in KeyIdx}

\* The inserts of put_phase that insert key k.
OpsOf(k) == {o \in Ops : o[1] \in Workers /\ OwnerOf(o[2]) = o[1] /\ keys[o[2]] = k}

\* C4 as stated: after the insert phase the entry of every inserted key holds
\* the value of the insert of that key that returned last.
C4_LastToReturnWins ==
  InsertPhaseJoined => \A k \in KeysInserted : Lookup(heap, table, k) = <<last_ret[k]>>

\* C4 amended: after the insert phase the entry of every inserted key holds the
\* value of an insert of that key which no other insert of the key followed
\* (none began after it had returned).
C4_LastWriterNotSuperseded ==
  InsertPhaseJoined =>
    \A k \in KeysInserted :
      /\ KeyCount(heap, table, k) = 1
      /\ \E o \in OpsOf(k) : o \notin superseded /\ Lookup(heap, table, k) = <<o[1]>>

\* Two workers inserted the same key, and the value stored is not the value of
\* the insert that returned last.
C4_Witness ==
  /\ InsertPhaseJoined /\ num_threads = 2
  /\ \E k \in KeysInserted :
       /\ \E o \in OpsOf(k), q \in OpsOf(k) : o[1] # q[1]
       /\ Lookup(heap, table, k) # <<last_ret[k]>>

\* ---------------------------------------------------------------------- C5
\* C5: Strategy C. A thread that holds or is about to take an entry lock holds
\* the bucket lock of that entry's bucket; a thread that is about to take a
\* bucket lock holds no entry lock; no thread holds two entry locks.
C5_LockOrder ==
  strategy = "C" =>
    \A t \in Tids :
      /\ \A a \in HeldEntries(t) : Slot(heap[a].key) \in HeldBuckets(t)
      /\ pc[t] \in {"i_mlock1", "i_mlock2", "r_mlock"} =>
           /\ Slot(heap[current[t]].key) \in HeldBuckets(t)
           /\ HeldEntries(t) = {}
      /\ pc[t] \in {"i_rdlock", "i_xlock", "r_lock"} => HeldEntries(t) = {}
      /\ Cardinality(HeldEntries(t)) <= 1
      /\ HeldEntries(MainTid) = {}

\* A fast-path insert holds the entry lock under the shared bucket lock while a
\* lookup, holding the same bucket lock in shared mode, waits for that entry lock.
C5_Witness ==
  /\ strategy = "C"
  /\ \E t \in Tids, u \in Tids :
       /\ pc[t] = "i_write1" /\ pc[u] = "r_mlock" /\ current[u] = current[t]
       /\ HeldEntries(t) = {current[t]}
       /\ {t, u} \subseteq bucket_locks[ArgSlot(t)].readers

\* ---------------------------------------------------------------------- C6
\* C6: after any sequence of inserts applied by one caller to an empty table,
\* lookups observe the same key-to-value mapping under strategies A, B and C.
C6_StrategyEquivalence == ObsMap(eqA) = ObsMap(eqB) /\ ObsMap(eqB) = ObsMap(eqC)

\* A sequence that linked two keys of one bucket and then overwrote one of them.
C6_Witness ==
  /\ eq_n = MaxSeq
  /\ KeyCount(eqC.heap, eqC.table, 0) = 1 /\ KeyCount(eqC.heap, eqC.table, NUM_BUCKETS) = 1
  /\ Lookup(eqC.heap, eqC.table, 0) = <<1>>
  /\ Lookup(eqC.heap, eqC.table, NUM_BUCKETS) = <<0>>
  /\ eqC.heap[eqC.table[0]].key = NUM_BUCKETS

\* ---------------------------------------------------------------------- C7
\* The step of worker t that writes the value of an existing entry.
UpdateStep(t) ==
  /\ pc[t] \in {"i_write1", "i_write2"}
  /\ pc'[t] \in {"i_munlock1", "i_munlock2", "i_xunlock_upd"}

\* The step of worker t that links its new entry.
LinkStep(t) == pc[t] = "i_link" /\ pc'[t] = "i_xunlock_new"

\* C7: insert(key, value) writes the value of the entry holding the key when the
\* chain of bucket key % NUM_BUCKETS has one, adding no entry; otherwise it links
\* exactly one new entry (key, value) at the head of that chain, its link
\* pointing at the previous head; the allocation-failure exit is reached only
\* for a key the chain does not hold.
C7_Upsert ==
  [][\A t \in Tids :
       /\ UpdateStep(t) =>
            /\ Find(heap, table, ArgKey(t)) = current[t] /\ current[t] # NULL
            /\ heap' = [heap EXCEPT ![current[t]].val = ArgVal(t)]
            /\ table' = table
       /\ LinkStep(t) =>
            /\ Find(heap, table, ArgKey(t)) = NULL
            /\ e[t] \notin Linked(heap, table)
            /\ table' = [table EXCEPT ![ArgSlot(t)] = e[t]]
            /\ heap'[e[t]].key = ArgKey(t) /\ heap'[e[t]].val = ArgVal(t)
            /\ heap'[e[t]].next = table[ArgSlot(t)]
            /\ \A a \in Addr \ {e[t]} : heap'[a] = heap[a]
            /\ Chain(heap', table', ArgSlot(t)) = <<e[t]>> \o Chain(heap, table, ArgSlot(t))
       /\ pc'[t] \in {"i_alloc", "i_link", "i_fail_unlock"} =>
            Find(heap', table', arg_key'[t]) = NULL
    ]_vars

\* A new entry was linked in front of an older one.
C7_Witness ==
  \E t \in Tids :
    /\ pc[t] = "i_xunlock_new"
    /\ table[ArgSlot(t)] = e[t]
    /\ heap[e[t]].next # NULL
    /\ heap[heap[e[t]].next].key # ArgKey(t)

\* ---------------------------------------------------------------------- C8
\* The copy a lookup is handing back: a live block outside every chain, with
\* no link, holding the key asked for and the value stored for it.
IsIndependentCopy(t) ==
  /\ result[t] \notin Linked(heap, table)
  /\ heap[result[t]].st = "alloc"
  /\ heap[result[t]].next = NULL
  /\ heap[result[t]].key = ArgKey(t)
  /\ <<heap[result[t]].val>> = Lookup(heap, table, ArgKey(t))

\* C8: what retrieve returns is a freshly allocated record outside every chain
\* (no link), so the caller's free of it changes no chain, no stored entry and
\* no later lookup; lookups of a stored key keep returning the stored value.
C8_IndependentCopy ==
  [][\A t \in Tids :
       /\ (pc'[t] \in {"r_munlock", "r_unlock_hit", "g_free"}
             \/ (pc'[t] = "r_ret" /\ result'[t] # NULL))
            => IsIndependentCopy(t)'
       /\ (pc[t] = "g_free" /\ pc'[t] = "get_loop") =>
            /\ table' = table
            /\ \A a \in Linked(heap, table) : heap'[a] = heap[a] /\ heap[a].st = "alloc"
            /\ \A k \in KeyDomain : Lookup(heap', table', k) = Lookup(heap, table, k)
    ]_vars

\* A worker's second lookup of a key found it again after the first copy was freed.
C8_Witness ==
  /\ num_threads = 2 /\ keys[0] = keys[2]
  /\ kidx[0] = 2 /\ pc[0] = "g_free"
  /\ IsIndependentCopy(0)
  /\ \E a \in Addr : heap[a].st = "freed"

\* ---------------------------------------------------------------------- C9
\* Positions at which a call has returned to its caller or is about to call panic.
ExitPcs == InsRetPcs \cup {"r_ret", "i_panic", "r_panic", "panicked", "api_idle", "g_free"}

\* Entry mutexes a thread owns, whatever the state of the mutex.
OwnedEntries(t) == {a \in Addr : heap[a].mowner = t}

\* C9: a thread that has returned from insert or retrieve, or has released its
\* way to panic after a failed allocation, holds no bucket lock and no entry lock.
C9_NoLockHeldOnExit ==
  \A t \in Tids : pc[t] \in ExitPcs => HeldBuckets(t) = {} /\ OwnedEntries(t) = {}

\* Strategy C: a lookup whose allocation failed is about to call panic while the
\* entry it had locked is still in its chain.
C9_Witness ==
  /\ strategy = "C"
  /\ \E t \in Tids : pc[t] = "r_panic" /\ current[t] \in Linked(heap, table)

\* --------------------------------------------------------------------- C10
AllWorkersJoined == \A t \in Workers : pc[t] = "get_done"

\* C10: teardown runs with every worker joined; it holds bucket i's lock
\* exclusively while it frees chain i; it frees no block twice and destroys no
\* mutex twice, each mutex before its block is freed; when it is done every
\* entry ever linked has been freed once (its mutex destroyed once in C),
\* nothing else was freed, and no bucket lock or entry lock is held.
C10_TeardownSafety ==
  /\ td_order_ok
  /\ \A a \in Addr : td_freed[a] <= 1 /\ td_destroyed[a] <= 1
  /\ mpc \in {"m_td_walk", "m_td_free"} =>
       /\ AllWorkersJoined
       /\ bucket_locks[mi].writer = MainTid /\ bucket_locks[mi].readers = {}
  /\ mpc = "m_done" =>
       /\ \A a \in ever_linked :
            /\ td_freed[a] = 1 /\ heap[a].st = "freed"
            /\ strategy = "C" => td_destroyed[a] = 1 /\ heap[a].mst = "destroyed"
       /\ \A a \in Addr \ ever_linked : td_freed[a] = 0 /\ td_destroyed[a] = 0
       /\ \A i \in Buckets :
            /\ bucket_locks[i].writer = NoThread /\ bucket_locks[i].readers = {}
            /\ bucket_locks[i].destroyed
       /\ \A a \in Addr : heap[a].mowner = NoThread

\* Teardown of Strategy C finished after freeing a chain of two entries.
C10_Witness ==
  /\ strategy = "C" /\ mpc = "m_done"
  /\ \E i \in Buckets : Len(Chain(heap, table, i)) = 2
  /\ Cardinality(ever_linked) >= 2

\* --------------------------------------------------------------------- C11
\* Main is inside the teardown loop.
InTeardown == mpc \in {"m_td_lock", "m_td_walk", "m_td_free", "m_td_unlock", "m_td_destroy"}

\* Positions at which a worker dereferences its chain cursor.
DerefPcs == {"i_scan1", "i_scan2", "i_mlock1", "i_mlock2", "i_write1", "i_write2",
             "i_munlock1", "i_munlock2", "r_scan", "r_mlock", "r_alloc", "r_copy",
             "r_munlock", "r_fail_munlock"}

\* C11 as stated: no bucket head and no link of a linked entry ever refers to a
\* freed entry, teardown included.
C11_FreedUnreachable == \A a \in Linked(heap, table) : heap[a].st # "freed"

\* C11 amended: no thread dereferences a freed entry.  Before teardown every
\* entry reachable from a bucket head is live; teardown frees an entry without
\* unlinking it, with every worker joined and the bucket's lock held exclusively,
\* after reading its link; only in buckets teardown has reached does a head
\* or a link refer to a freed entry.
C11_NoDanglingTraversal ==
  /\ ~(InTeardown \/ mpc = "m_done") => \A a \in Linked(heap, table) : heap[a].st = "alloc"
  /\ \A t \in Tids :
       (pc[t] \in DerefPcs /\ current[t] # NULL) =>
         heap[current[t]].st = "alloc" /\ current[t] \in Linked(heap, table)
  /\ (mpc = "m_td_walk" /\ mcur # NULL) => heap[mcur].st = "alloc"
  /\ mpc = "m_td_free" =>
       /\ heap[mcur].st = "alloc"
       /\ mnext # NULL => heap[mnext].st = "alloc"
  /\ InTeardown =>
       /\ AllWorkersJoined
       /\ \A i \in Buckets :
            (i > mi \/ (i = mi /\ mpc = "m_td_lock")) =>
              \A a \in ChainSet(heap, table, i) : heap[a].st = "alloc"
       /\ \A a \in Linked(heap, table) :
            heap[a].st = "freed" =>
              \/ bucket_locks[Slot(heap[a].key)].writer = MainTid
              \/ bucket_locks[Slot(heap[a].key)].destroyed
              \/ (mpc = "m_td_destroy" /\ mi = Slot(heap[a].key))

\* Teardown has freed the head of a chain of two: the bucket head still refers
\* to the freed entry, and the cursor stands on the live second entry.
C11_Witness ==
  /\ mpc = "m_td_walk" /\ mcur # NULL
  /\ table[mi] # NULL /\ heap[table[mi]].st = "freed"
  /\ heap[table[mi]].next = mcur /\ heap[mcur].st = "alloc"

\* --------------------------------------------------------------------- C12
\* Worker t is at the statement that writes current->val.
WritingVal(t) == pc[t] \in {"i_write1", "i_write2"}

\* Worker t is at the statement that reads b->val into the copy.
ReadingVal(t) == pc[t] = "r_copy"

\* C12 as stated: no two threads are at an access (read or write) of the value
\* field of the same entry at the same time, under each strategy.
C12_ValueExclusive ==
  \A t \in Tids, u \in Tids :
    (t # u /\ (WritingVal(t) \/ ReadingVal(t)) /\ (WritingVal(u) \/ ReadingVal(u)))
      => current[t] # current[u]

\* C12 amended: a write of an entry's value never overlaps another thread's
\* read or write of it; under A and C two reads never overlap either (under B
\* two lookups read the same value at once, both holding the bucket lock in
\* shared mode); the copy equals the stored value for as long as the lookup
\* still holds the lock that covered the read.
C12_NoValueRace ==
  /\ \A t \in Tids, u \in Tids :
       (t # u /\ WritingVal(t) /\ (WritingVal(u) \/ ReadingVal(u)))
         => current[t] # current[u]
  /\ strategy # "B" =>
       \A t \in Tids, u \in Tids :
         (t # u /\ ReadingVal(t) /\ ReadingVal(u)) => current[t] # current[u]
  /\ \A t \in Tids :
       (pc[t] = "r_munlock" \/ (strategy # "C" /\ pc[t] = "r_unlock_hit")) =>
         /\ heap[result[t]].val = heap[current[t]].val
         /\ heap[result[t]].key = heap[current[t]].key

\* Strategy C: a lookup is copying an entry under its entry lock while a
\* fast-path insert of the same key, under the same shared bucket lock, waits
\* for that entry lock.
C12_Witness ==
  /\ strategy = "C"
  /\ \E t \in Tids, u \in Tids :
       /\ pc[t] = "r_copy" /\ pc[u] = "i_mlock1" /\ current[u] = current[t]
       /\ heap[current[t]].mowner = t
       /\ {t, u} \subseteq bucket_locks[ArgSlot(t)].readers

\* --------------------------------------------------------------------- C13
\* Positions inside retrieve, from the call to the return.
RetrievePcs == {"r_lock", "r_scan", "r_mlock", "r_alloc", "r_copy", "r_munlock",
                "r_unlock_hit", "r_unlock_miss", "r_ret"}

\* C13: a lookup that ends its scan not-found still holds the bucket lock, and
\* at that instant the chain of its bucket holds no entry with its key; a lookup
\* of k that began after some insert of k had returned never takes the
\* not-found path and returns a copy, whatever other workers insert meanwhile.
C13_LookupVisibility ==
  \A t \in Tids :
    /\ pc[t] = "r_unlock_miss" =>
         /\ Find(heap, table, ArgKey(t)) = NULL
         /\ ArgSlot(t) \in HeldBuckets(t)
    /\ (pc[t] \in RetrievePcs /\ after_insert[t]) =>
         /\ pc[t] # "r_unlock_miss"
         /\ pc[t] = "r_ret" => result[t] # NULL
         /\ Find(heap, table, ArgKey(t)) # NULL

\* A lookup that began after an insert of its key returned has found the key,
\* while another worker is inside insert with a new key of the same bucket,
\* waiting for the bucket lock to link it.
C13_Witness ==
  \E t \in Tids, u \in Tids :
    /\ pc[t] = "r_unlock_hit" /\ after_insert[t]
    /\ result[t] # NULL /\ heap[result[t]].key = ArgKey(t)
    /\ pc[u] = "i_xlock" /\ ArgSlot(u) = ArgSlot(t) /\ ArgKey(u) # ArgKey(t)
    /\ Find(heap, table, ArgKey(u)) = NULL

\* --------------------------------------------------------------------- C14
\* Positions of insert and retrieve between a bucket-lock acquisition and the
\* matching release: the chain scans, the value accesses and the link.
InsidePcs == {"i_scan1", "i_mlock1", "i_write1", "i_munlock1", "i_rdunlock_hit",
              "i_rdunlock_miss", "i_scan2", "i_mlock2", "i_write2", "i_munlock2",
              "i_xunlock_upd", "i_xunlock_new", "i_alloc", "i_link", "i_fail_unlock",
              "r_scan", "r_mlock", "r_alloc", "r_copy", "r_munlock", "r_fail_munlock",
              "r_fail_unlock", "r_unlock_hit", "r_unlock_miss"}

\* Worker t is inside the scan, update or link of bucket i.
InsideBucket(t, i) == pc[t] \in InsidePcs /\ ArgSlot(t) = i

\* From the start of the scan that ends with the key absent to the link.
CheckToLinkPcs == {"i_scan2", "i_alloc", "i_link"}

\* C14: Strategies B and C. A worker between the start of the scan under the
\* exclusive lock and the link of its new entry is the exclusive holder of the
\* bucket lock, nobody holds that lock in shared mode, and no other worker is
\* inside a scan, an update or a link of that bucket.
C14_StructuralExclusive ==
  strategy \in {"B", "C"} =>
    \A t \in Tids :
      pc[t] \in CheckToLinkPcs =>
        /\ bucket_locks[ArgSlot(t)].writer = t
        /\ bucket_locks[ArgSlot(t)].readers = {}
        /\ \A u \in Tids \ {t} : ~InsideBucket(u, ArgSlot(t))

\* Strategy C: a worker is about to link a key it found absent in the
\* double-check while a lookup of that key waits for the bucket lock.
C14_Witness ==
  /\ strategy = "C"
  /\ \E t \in Tids, u \in Tids :
       /\ pc[t] = "i_link" /\ pc[u] = "r_lock" /\ ArgKey(u) = ArgKey(t)
       /\ table[ArgSlot(t)] # NULL

\* --------------------------------------------------------------------- C15
\* C15: Strategy A. At most one worker is inside the scan, update, copy or link
\* of a bucket, in insert or in retrieve, and that worker holds the bucket's
\* spinlock; a worker outside holds no bucket lock (until exit(1) ends the
\* process, whatever the other threads held).
C15_SpinExclusion ==
  strategy = "A" =>
    /\ \A i \in Buckets : Cardinality({t \in Tids : InsideBucket(t, i)}) <= 1
    /\ \A t \in Tids :
         /\ pc[t] \in InsidePcs => HeldBuckets(t) = {ArgSlot(t)}
                                   /\ bucket_locks[ArgSlot(t)].writer = t
         /\ (pc[t] \notin InsidePcs /\ ~exited) => HeldBuckets(t) = {}
    /\ \A i \in Buckets : bucket_locks[i].readers = {}

\* Strategy A: a lookup is copying an entry while a lookup of another key of
\* the same bucket waits for the spinlock.
C15_Witness ==
  /\ strategy = "A"
  /\ \E t \in Tids, u \in Tids :
       /\ pc[t] = "r_copy" /\ pc[u] = "r_lock"
       /\ ArgSlot(u) = ArgSlot(t) /\ ArgKey(u) # ArgKey(t)

\* --------------------------------------------------------------------- C16
\* Positions inside insert, from the call to the return.
InsertPcs == {"i_rdlock", "i_scan1", "i_mlock1", "i_write1", "i_munlock1",
              "i_rdunlock_hit", "i_rdunlock_miss", "i_xlock", "i_scan2", "i_mlock2",
              "i_write2", "i_munlock2", "i_xunlock_upd", "i_xunlock_new", "i_alloc",
              "i_link", "i_fail_unlock", "i_panic"} \cup InsRetPcs

\* The fast path of Strategy C's insert.
FastPathPcs == {"i_rdlock", "i_scan1", "i_mlock1", "i_write1", "i_munlock1",
                "i_rdunlock_hit", "i_ret_fast"}

\* C16 (second half): Strategy C. An insert called with its key already linked
\* stays on the fast path: it never waits for or holds the bucket lock in
\* exclusive mode, and it leaves the shared scan only through a hit.
C16_FastPathShared ==
  strategy = "C" =>
    \A t \in Tids :
      (pc[t] \in InsertPcs /\ existed_at_call[t]) =>
        /\ pc[t] \in FastPathPcs
        /\ \A i \in Buckets : bucket_locks[i].writer # t

\* C16 (first half): two inserts of two different existing keys of one bucket
\* both hold the bucket lock in shared mode and each holds the entry lock of its
\* own entry.
C16_Witness ==
  /\ strategy = "C"
  /\ \E t \in Tids, u \in Tids :
       /\ pc[t] = "i_write1" /\ pc[u] = "i_write1"
       /\ existed_at_call[t] /\ existed_at_call[u]
       /\ ArgKey(t) # ArgKey(u) /\ ArgSlot(t) = ArgSlot(u)
       /\ {t, u} \subseteq bucket_locks[ArgSlot(t)].readers
       /\ bucket_locks[ArgSlot(t)].writer = NoThread
       /\ heap[current[t]].mowner = t /\ heap[current[u]].mowner = u
       /\ current[t] # current[u]

\* --------------------------------------------------------------------- C17
\* The driver under a fair scheduler and fair locks: a thread that can take a
\* step forever eventually takes one.  The workload is finite, so a lock a
\* thread waits for is eventually free for good unless the thread gets it.
SpecFair == Init /\ [][Next]_vars /\ WF_vars(Main) /\ \A t \in Tids : WF_vars(Worker(t))

\* The run is over: teardown is done, or panic called exit(1).
RunFinished == mpc = "m_done" \/ exited

\* Worker t is inside a call of insert or retrieve.
InCall(t) == pc[t] \in (InsertPcs \cup RetrievePcs \cup {"r_fail_munlock", "r_fail_unlock", "r_panic"})

\* C17 as stated: every call returns and the whole run finishes its two phases
\* and its teardown.
C17_RunCompletes == <>(mpc = "m_done")

\* C17 amended: no state short of the end of the run leaves every thread
\* unable to step; the run eventually finishes, either with teardown done and
\* every call of insert and retrieve returned, or ended by exit(1) on the
\* allocation-failure path.
C17_NoDeadlockTermination ==
  /\ [](~RunFinished => ENABLED Next)
  /\ [](mpc = "m_done" => \A t \in Tids : ~InCall(t))
  /\ <>RunFinished

\* Strategy C: a fast-path insert waits for an entry lock that another
\* fast-path insert of the same key holds.
C17_Witness ==
  /\ strategy = "C"
  /\ \E t \in Tids, u \in Tids :
       /\ pc[t] = "i_mlock1" /\ pc[u] = "i_munlock1" /\ current[t] = current[u]
       /\ heap[current[t]].mowner = u

\* --------------------------------------------------------------------- C18
\* Positions of a worker running put_phase, its insert calls included.
PutPhasePcs == {"put_loop", "put_exit"} \cup InsertPcs

\* Positions of a worker running get_phase, its retrieve calls included.
GetPhasePcs == {"get_loop", "g_free", "get_exit", "r_fail_munlock", "r_fail_unlock",
                "r_panic"} \cup RetrievePcs

\* C18: while a worker runs the lookup phase, no worker is running or still has
\* to run its insert phase; main creates the lookup threads only with every
\* insert thread joined, and starts teardown only with every lookup thread
\* joined.
C18_PhaseBarrier ==
  /\ (\E t \in Workers : pc[t] \in GetPhasePcs) =>
       /\ \A u \in Workers : pc[u] \notin PutPhasePcs /\ pc[u] # "idle"
       /\ mpc \in {"m_create_get", "m_join_get"}
  /\ mpc = "m_create_get" =>
       \A u \in Workers : pc[u] = "put_done" \/ (u < mi /\ pc[u] \in GetPhasePcs \cup {"get_done"})
  /\ mpc \in {"m_create_put", "m_join_put"} =>
       \A u \in Workers : pc[u] \in PutPhasePcs \cup {"idle", "put_done"}
  /\ (InTeardown \/ mpc = "m_done") => AllWorkersJoined

\* The first lookup thread is inside retrieve while main is creating the
\* second one; both insert threads were joined.
C18_Witness ==
  /\ num_threads = 2
  /\ mpc = "m_create_get" /\ mi = 1
  /\ pc[0] = "r_scan" /\ pc[1] = "put_done"

\* --------------------------------------------------------------------- C19
\* Chain c2 is chain c1, or chain c1 with one entry added in front.
GrowsAtHead(c1, c2) == c2 = c1 \/ (Len(c2) = Len(c1) + 1 /\ Tail(c2) = c1)

\* C19: the step of insert that updates an existing key changes the value field
\* of that key's entry and nothing else of the heap or the table; and until
\* teardown starts every step leaves each linked entry linked and live with its
\* key and its link, so each chain stays as it is or gains one entry at its head.
C19_UpdateFrame ==
  [][ /\ \A t \in Tids :
           UpdateStep(t) =>
             /\ current[t] = Find(heap, table, ArgKey(t)) /\ current[t] # NULL
             /\ table' = table
             /\ \A a \in Addr \ {current[t]} : heap'[a] = heap[a]
             /\ heap'[current[t]] = [heap[current[t]] EXCEPT !.val = ArgVal(t)]
             /\ \A i \in Buckets : Chain(heap', table', i) = Chain(heap, table, i)
      /\ ~(InTeardown \/ mpc = "m_done") =>
           /\ \A a \in Linked(heap, table) :
                /\ a \in Linked(heap', table')
                /\ heap'[a].key = heap[a].key
                /\ heap'[a].next = heap[a].next
                /\ heap'[a].st = "alloc"
           /\ \A i \in Buckets : GrowsAtHead(Chain(heap, table, i), Chain(heap', table', i))
    ]_vars

\* Strategy B: an insert has just overwritten the value of the second entry of
\* a chain of two.
C19_Witness ==
  /\ strategy = "B"
  /\ \E t \in Tids :
       /\ pc[t] = "i_xunlock_upd"
       /\ Len(Chain(heap, table, ArgSlot(t))) = 2
       /\ current[t] = Chain(heap, table, ArgSlot(t))[2]
       /\ heap[current[t]].val = ArgVal(t)

\* --------------------------------------------------------------------- C20
\* SpecSlot: the first statement of insert and of retrieve, int i = key %
\* NUM_BUCKETS, applied to every key of a range of int around zero (the
\* parameter is an int; nothing in insert or retrieve rejects a key).
IntKeys == (-MaxKey) .. MaxKey

InitSlot ==
  /\ InitBase
  /\ strategy = "A"
  /\ num_threads = 1
  /\ keys = [j \in 0 .. (NUM_KEYS - 1) |-> 0]
  /\ pc = [t \in Tids |-> "idle"]
  /\ mpc = "m_slot"

\* insert(k, _): int i = key % NUM_BUCKETS;
SlotInsert ==
  /\ \E k \in IntKeys :
       /\ slot_key' = k
       /\ slot_ins' = <<Slot(k)>>
       /\ slot_ret' = IF k = slot_key THEN slot_ret ELSE <<>>
  /\ UNCHANGED <<cfgVars, memVars, bucket_locks, workerVars, mainVars, exited,
                 histVars, tdVars, eqA, eqB, eqC, eq_n>>

\* retrieve(k): int i = key % NUM_BUCKETS;
SlotRetrieve ==
  /\ \E k \in IntKeys :
       /\ slot_key' = k
       /\ slot_ret' = <<Slot(k)>>
       /\ slot_ins' = IF k = slot_key THEN slot_ins ELSE <<>>
  /\ UNCHANGED <<cfgVars, memVars, bucket_locks, workerVars, mainVars, exited,
                 histVars, tdVars, eqA, eqB, eqC, eq_n>>

NextSlot == SlotInsert \/ SlotRetrieve

SpecSlot == InitSlot /\ [][NextSlot]_vars

\* C20 as stated: for every int key the index insert and retrieve compute lies
\* in 0 .. NUM_BUCKETS - 1 (so it names a bucket and a bucket lock), insert and
\* retrieve of one key compute the same index, and every linked entry is in the
\* chain of its key's index.
C20_SlotValid ==
  /\ \A i \in Buckets : \A a \in ChainSet(heap, table, i) : Slot(heap[a].key) = i
  /\ slot_ins # <<>> => slot_ins[1] \in Buckets
  /\ slot_ret # <<>> => slot_ret[1] \in Buckets
  /\ (slot_ins # <<>> /\ slot_ret # <<>>) => slot_ins = slot_ret

=============================================================================
